---- MODULE Spec2Model ----
(***************************************************************************)
(* Model of discordbot.py: the monitor() polling task, the on_message      *)
(* command handler and the two JSON files they persist to.                 *)
(*                                                                         *)
(* Python dicts are functions whose DOMAIN is the set of keys present.     *)
(* Both coroutines run on one asyncio loop: an action of this model is the *)
(* code between two awaits (requests.* and file I/O are blocking calls,    *)
(* not awaits).                                                            *)
(***************************************************************************)
EXTENDS Integers, Sequences, FiniteSets, TLC

\* ------------------------------------------------------------------ bounds
MaxCycles == 3          \* poll cycles explored
MaxRestarts == 1        \* restarts of the process explored

\* ------------------------------------------------------- program constants
INTERVAL == 60

\* ------------------------------------------------------------ input domains
AllNames == {"pve1", "web"}             \* entity names the API may list
RawStatus == {"running", "stopped"}     \* status strings as the API sends them
MemUsed == 1                            \* mem value (bytes)
CpuLoad == 0                            \* cpu value
Chans == {1, 2}                         \* channel ids of the guild

NoStatus == "None"                      \* Python None where a status string is expected
NoChannel == 0                          \* Python None where a channel id is expected

VARIABLES
    previous_status,    \* dict: name -> last status
    notify_config,      \* [nodes: dict name -> channel id, vms: dict name -> channel id]
    history_data,       \* dict: name -> sequence of entries
    configFile,         \* CONFIG_FILE: [exists, valid, data]
    historyFile,        \* HISTORY_FILE: [exists, valid, data]
    closed,             \* client.is_closed()
    channels,           \* channel ids client.get_channel() resolves
    now,                \* datetime.utcnow(), in seconds
    pc,                 \* where monitor() is suspended
    nodes, vms,         \* monitor()'s locals: the lists fetched in this cycle
    at,                 \* index (in nodes followed by vms) of the entity whose send is awaited
    sendTo,             \* channel of the awaited send
    reply,              \* the message the last run of on_message sent, <<>> if none
    \* ---- observation of a run (no counterpart in the program)
    cycle,              \* number of cycles started
    fetched,            \* the current cycle fetched nodes and vms
    failed,             \* the current cycle reached the except clause
    histStep,           \* the history loops of the current cycle: pending, raised or done
    sent,               \* notifications delivered in the current cycle, in order
    cached,             \* entities whose previous_status assignment ran in the current cycle
    startPs,            \* previous_status when the current cycle started
    startLen,           \* length of each history sequence when the current cycle started
    same,               \* entities fetched with the status the previous cycle fetched,
                        \* their name unshared in that cycle
    settled,            \* those of them the previous cycle cached
    seen,               \* entities fetched in an earlier cycle
    touched,            \* notify_config or channels changed during the current cycle
    lastCmd,            \* last command handled
    cfgSaveFailed,      \* the last save_json of CONFIG_FILE raised
    emerg,              \* the suspended !status-detail-emergency handler: its locals
                        \* all_targets and buf, the index of the target whose send is
                        \* awaited (0: no handler suspended), and message.channel
    \* ---- observation of a run, continued
    cmdChannel,         \* channel the last command came from
    apiFailed,          \* the Proxmox call of the last command raised
    boots,              \* number of restarts of the process
    bootCycle,          \* value of cycle at the last restart
    stoppedBefore       \* entities the last cycle before the last restart fetched as STOPPED

progVars == <<previous_status, history_data, historyFile, now, pc, nodes, vms, at, sendTo>>
obsVars == <<cycle, fetched, failed, histStep, sent, cached, startPs, startLen, same,
             settled, seen>>
qryVars == <<emerg, cmdChannel, apiFailed>>
bootVars == <<boots, bootCycle, stoppedBefore>>
cmdVars == <<notify_config, configFile, reply, lastCmd, cfgSaveFailed, qryVars, bootVars>>
envVars == <<closed, channels>>
vars == <<progVars, obsVars, cmdVars, envVars, touched>>

\* ------------------------------------------------------------ dict helpers
EmptyDict == [k \in {} |-> 0]
Get(d, k, none) == IF k \in DOMAIN d THEN d[k] ELSE none
Put(d, k, v) == [x \in (DOMAIN d) \cup {k} |-> IF x = k THEN v ELSE d[x]]
Pop(d, k) == [x \in (DOMAIN d) \ {k} |-> d[x]]

\* str.upper() on the status strings of the API
Upper(s) ==
    CASE s = "running" -> "RUNNING"
      [] s = "stopped" -> "STOPPED"
      [] OTHER -> s

\* ------------------------------------------------------------- JSON files
\* json.dump writes an object as its key/value pairs; json.load rebuilds the dict
DumpDict(d) == {<<k, d[k]>> : k \in DOMAIN d}
LoadDict(o) == [k \in {p[1] : p \in o} |-> (CHOOSE p \in o : p[1] = k)[2]]
DumpConfig(c) == [nodes |-> DumpDict(c.nodes), vms |-> DumpDict(c.vms)]
LoadConfig(o) == [nodes |-> LoadDict(o.nodes), vms |-> LoadDict(o.vms)]
\* DumpHistory writing each name with an empty list
DumpHistory_Names(h) == DumpDict([n \in DOMAIN h |-> <<>>])
DumpHistory(h) == DumpDict(h)
LoadHistory(o) == LoadDict(o)

SaveOutcomes == {"ok", "open_error", "write_error"}
\* save_json opening the file in append mode: the document is written after
\* whatever the file held
save_json_Append(file, text, outcome) ==
    CASE outcome = "ok" ->
             [exists |-> TRUE, valid |-> ~file.exists, data |-> text]
      [] outcome = "open_error" -> file
      [] OTHER -> [exists |-> TRUE, valid |-> FALSE, data |-> text]

\* open(file_path, "w") either fails and leaves the file alone, or truncates it;
\* a failure after that leaves a file that is no complete JSON document
save_json(file, text, outcome) ==
    CASE outcome = "ok" -> [exists |-> TRUE, valid |-> TRUE, data |-> text]
      [] outcome = "open_error" -> file
      [] OTHER -> [exists |-> TRUE, valid |-> FALSE, data |-> text]

\* ------------------------------------------------------ Proxmox API results
VmId(name) == IF name = "web" THEN 101 ELSE 100

NodeRec(name, st, mm) ==
    [node |-> name, status |-> Upper(st), cpu |-> CpuLoad, mem |-> MemUsed, maxmem |-> mm]
VmRec(name, st, mm) ==
    [name |-> name, vmid |-> VmId(name), status |-> st, cpu |-> CpuLoad,
     mem |-> MemUsed, maxmem |-> mm]

\* the lists get_node_status can return for a cluster with these node names
RECURSIVE NodeLists(_, _)
NodeLists(names, mems) ==
    IF names = <<>> THEN {<<>>}
    ELSE LET rest == NodeLists(Tail(names), mems)
         IN rest \cup {<<NodeRec(Head(names), st, mm)>> \o l :
                          st \in RawStatus, mm \in mems, l \in rest}

\* the lists get_vm_status can return for a cluster with these guest names
RECURSIVE VmLists(_, _)
VmLists(names, mems) ==
    IF names = <<>> THEN {<<>>}
    ELSE LET rest == VmLists(Tail(names), mems)
         IN rest \cup {<<VmRec(Head(names), st, mm)>> \o l :
                          st \in RawStatus, mm \in mems, l \in rest}

\* the entities of a cycle in the order the loops of monitor() visit them
ItemsOf(ns, vs) ==
    [i \in 1..(Len(ns) + Len(vs)) |->
        IF i <= Len(ns)
        THEN [kind |-> "nodes", name |-> ns[i].node, status |-> Upper(ns[i].status),
              cpu |-> ns[i].cpu, mem |-> ns[i].mem, maxmem |-> ns[i].maxmem]
        ELSE LET v == vs[i - Len(ns)]
             IN [kind |-> "vms", name |-> v.name, status |-> Upper(v.status),
                 cpu |-> v.cpu, mem |-> v.mem, maxmem |-> v.maxmem]]
Items == ItemsOf(nodes, vms)
KeyOf(it) == <<it.kind, it.name>>
KeysOf(items) == {KeyOf(items[i]) : i \in DOMAIN items}

\* ------------------------------------------------------------ history step
\* mem / maxmem, as a percentage
Frac(mem, maxmem) == (mem * 100) \div maxmem

\* AppendHistory assigning the new entry instead of appending it
RECURSIVE AppendHistory_Overwrite(_, _, _, _)
AppendHistory_Overwrite(hist, items, i, ts) ==
    IF i > Len(items) THEN [hist |-> hist, raised |-> FALSE]
    ELSE IF items[i].maxmem = 0 THEN [hist |-> hist, raised |-> TRUE]
    ELSE LET it == items[i]
             entry == [time |-> ts, cpu |-> it.cpu, mem |-> (it.mem * 100) \div it.maxmem]
         IN AppendHistory_Overwrite(Put(hist, it.name, <<entry>>), items, i + 1, ts)

\* AppendHistory inserting the new entry at the head of the list
RECURSIVE AppendHistory_Insert(_, _, _, _)
AppendHistory_Insert(hist, items, i, ts) ==
    IF i > Len(items) THEN [hist |-> hist, raised |-> FALSE]
    ELSE IF items[i].maxmem = 0 THEN [hist |-> hist, raised |-> TRUE]
    ELSE LET it == items[i]
             entry == [time |-> ts, cpu |-> it.cpu, mem |-> (it.mem * 100) \div it.maxmem]
         IN AppendHistory_Insert(Put(hist, it.name, <<entry>> \o Get(hist, it.name, <<>>)),
                                 items, i + 1, ts)

\* the two history loops: [hist, raised]; ZeroDivisionError leaves the
\* entries appended so far
RECURSIVE AppendHistory(_, _, _, _)
AppendHistory(hist, items, i, ts) ==
    IF i > Len(items) THEN [hist |-> hist, raised |-> FALSE]
    ELSE IF items[i].maxmem = 0 THEN [hist |-> hist, raised |-> TRUE]
    ELSE LET it == items[i]
             entry == [time |-> ts, cpu |-> it.cpu, mem |-> Frac(it.mem, it.maxmem)]
         IN AppendHistory(Put(hist, it.name, Append(Get(hist, it.name, <<>>), entry)),
                          items, i + 1, ts)

\* --------------------------------------------------------- notification step
\* NeedsSend with the status test on the wrong value
NeedsSend_WrongStatus(it, ps, cfg, chs) ==
    LET prev == Get(ps, it.name, NoStatus)
        channel_id == Get(cfg[it.kind], it.name, NoChannel)
    IN /\ prev # NoStatus /\ prev # ""
       /\ prev # it.status
       /\ it.status = "RUNNING"
       /\ channel_id # NoChannel
       /\ channel_id \in chs

\* NeedsSend without the comparison with the cached status
NeedsSend_NoCompare(it, ps, cfg, chs) ==
    LET prev == Get(ps, it.name, NoStatus)
        channel_id == Get(cfg[it.kind], it.name, NoChannel)
    IN /\ prev # NoStatus /\ prev # ""
       /\ it.status = "STOPPED"
       /\ channel_id # NoChannel
       /\ channel_id \in chs

\* NeedsSend notifying every change of status
NeedsSend_AnyChange(it, ps, cfg, chs) ==
    LET prev == Get(ps, it.name, NoStatus)
        channel_id == Get(cfg[it.kind], it.name, NoChannel)
    IN /\ prev # NoStatus /\ prev # ""
       /\ prev # it.status
       /\ channel_id # NoChannel
       /\ channel_id \in chs

\* the condition under which an entity's iteration awaits channel.send
NeedsSend(it, ps, cfg, chs) ==
    LET prev == Get(ps, it.name, NoStatus)
        channel_id == Get(cfg[it.kind], it.name, NoChannel)
    IN /\ prev # NoStatus /\ prev # ""
       /\ prev # it.status
       /\ it.status = "STOPPED"
       /\ channel_id # NoChannel
       /\ channel_id \in chs

\* Scan with the previous_status assignment made only for a name already cached
RECURSIVE Scan_CacheKnownOnly(_, _, _, _, _, _)
Scan_CacheKnownOnly(items, i, ps, done, cfg, chs) ==
    IF i > Len(items) THEN [ps |-> ps, at |-> 0, cached |-> done]
    ELSE IF NeedsSend(items[i], ps, cfg, chs) THEN [ps |-> ps, at |-> i, cached |-> done]
    ELSE Scan_CacheKnownOnly(items, i + 1,
                             IF items[i].name \in DOMAIN ps
                             THEN Put(ps, items[i].name, items[i].status) ELSE ps,
                             done \cup {KeyOf(items[i])}, cfg, chs)

\* run the loops from entity i until a send is awaited (at = its index) or the
\* loops end (at = 0); the iterations run on the way assign previous_status
RECURSIVE Scan(_, _, _, _, _, _)
Scan(items, i, ps, done, cfg, chs) ==
    IF i > Len(items) THEN [ps |-> ps, at |-> 0, cached |-> done]
    ELSE IF NeedsSend(items[i], ps, cfg, chs) THEN [ps |-> ps, at |-> i, cached |-> done]
    ELSE Scan(items, i + 1, Put(ps, items[i].name, items[i].status),
              done \cup {KeyOf(items[i])}, cfg, chs)

\* ------------------------------------------------------------------- Init
NoEmergency == [targets |-> <<>>, pos |-> 0, buf |-> <<>>, channel |-> NoChannel]
LenOf(h) == [n \in AllNames |-> Len(Get(h, n, <<>>))]

\* load_json: the parsed content of the file, or the default if there is none
\* (defined only for a file json.load accepts)
load_json(file, loaded, default) == IF file.exists THEN loaded ELSE default

EmptyConfig == [nodes |-> EmptyDict, vms |-> EmptyDict]
FileOf(text) == [exists |-> TRUE, valid |-> TRUE, data |-> text]
NoFile(text) == [exists |-> FALSE, valid |-> TRUE, data |-> text]

\* the dicts with keys among names and values among vals
Dicts(names, vals) == UNION {[ks -> vals] : ks \in SUBSET names}
Configs(names, chs) == [nodes : Dicts(names, chs), vms : Dicts(names, chs)]

\* module level: the globals, the two load_json calls, the client not yet closed;
\* monitor() is created by on_ready
InitWith(configFiles, historyFiles, channelSets) ==
    /\ configFile \in configFiles
    /\ historyFile \in historyFiles
    /\ notify_config = load_json(configFile, LoadConfig(configFile.data), EmptyConfig)
    /\ history_data = load_json(historyFile, LoadHistory(historyFile.data), EmptyDict)
    /\ previous_status = EmptyDict
    /\ closed = FALSE
    /\ channels \in channelSets
    /\ now = 0
    /\ pc = "start"
    /\ nodes = <<>>
    /\ vms = <<>>
    /\ at = 0
    /\ sendTo = NoChannel
    /\ reply = <<>>
    /\ cycle = 0
    /\ fetched = FALSE
    /\ failed = FALSE
    /\ histStep = "pending"
    /\ sent = <<>>
    /\ cached = {}
    /\ startPs = EmptyDict
    /\ startLen = LenOf(history_data)
    /\ same = {}
    /\ settled = {}
    /\ seen = {}
    /\ touched = FALSE
    /\ lastCmd = [op |-> "none", kind |-> "nodes", name |-> "", paired |-> FALSE,
                  before |-> EmptyConfig]
    /\ cfgSaveFailed = FALSE
    /\ emerg = NoEmergency
    /\ cmdChannel = NoChannel
    /\ apiFailed = FALSE
    /\ boots = 0
    /\ bootCycle = 0
    /\ stoppedBefore = {}

\* ---------------------------------------------------------------- monitor()
\* asyncio.sleep returns (or the task starts) and the loop condition is false
MonitorExit ==
    /\ pc \in {"start", "sleep"}
    /\ closed
    /\ pc' = "done"
    /\ UNCHANGED <<previous_status, history_data, historyFile, now, nodes, vms, at, sendTo>>
    /\ UNCHANGED <<obsVars, cmdVars, envVars, touched>>

\* the entities the cycle that ends here fetched
SeenNow == IF fetched THEN KeysOf(Items) ELSE {}
StatusOf(items, k) == items[CHOOSE i \in DOMAIN items : KeyOf(items[i]) = k].status
Shared(items, k) == \E i \in DOMAIN items : items[i].name = k[2] /\ items[i].kind # k[1]

\* asyncio.sleep returns (or the task starts) and a cycle begins
BeginCycle ==
    /\ pc \in {"start", "sleep"}
    /\ ~closed
    /\ cycle < MaxCycles
    /\ cycle' = cycle + 1
    /\ now' = IF pc = "sleep" THEN now + INTERVAL ELSE now
    /\ seen' = seen \cup SeenNow
    /\ startPs' = previous_status
    /\ startLen' = LenOf(history_data)
    /\ sent' = <<>>
    /\ cached' = {}
    /\ histStep' = "pending"
    /\ touched' = FALSE
    /\ at' = 0
    /\ sendTo' = NoChannel

\* get_node_status or get_vm_status raises: the except clause, then the sleep
FetchFail(nodeLists) ==
    /\ BeginCycle
    /\ \/ UNCHANGED nodes
       \/ nodes' \in nodeLists
    /\ fetched' = FALSE
    /\ failed' = TRUE
    /\ same' = {}
    /\ settled' = {}
    /\ pc' = "sleep"
    /\ UNCHANGED <<previous_status, history_data, historyFile, vms>>
    /\ UNCHANGED <<cmdVars, envVars>>

\* both lists fetched; format_summary; change_presence is awaited
FetchOk(nodeLists, vmLists) ==
    /\ BeginCycle
    /\ nodes' \in nodeLists
    /\ vms' \in vmLists
    /\ fetched' = TRUE
    /\ failed' = FALSE
    /\ LET new == ItemsOf(nodes', vms')
       IN /\ same' = {k \in KeysOf(new) \cap SeenNow :
                         /\ StatusOf(new, k) = StatusOf(Items, k)
                         /\ ~Shared(Items, k)}
          /\ settled' = {k \in KeysOf(new) \cap SeenNow :
                            /\ StatusOf(new, k) = StatusOf(Items, k)
                            /\ ~Shared(Items, k)
                            /\ k \in cached}
    /\ pc' = "presence"
    /\ UNCHANGED <<previous_status, history_data, historyFile>>
    /\ UNCHANGED <<cmdVars, envVars>>

\* PresenceFail with an except clause that does not catch the error: the task ends
PresenceFail_Uncaught ==
    /\ pc = "presence"
    /\ failed' = TRUE
    /\ pc' = "done"
    /\ UNCHANGED <<previous_status, history_data, historyFile, now, nodes, vms, at, sendTo>>
    /\ UNCHANGED <<cycle, fetched, histStep, sent, cached, startPs, startLen, same,
                   settled, seen>>
    /\ UNCHANGED <<cmdVars, envVars, touched>>

\* change_presence raises
PresenceFail ==
    /\ pc = "presence"
    /\ failed' = TRUE
    /\ pc' = "sleep"
    /\ UNCHANGED <<previous_status, history_data, historyFile, now, nodes, vms, at, sendTo>>
    /\ UNCHANGED <<cycle, fetched, histStep, sent, cached, startPs, startLen, same,
                   settled, seen>>
    /\ UNCHANGED <<cmdVars, envVars, touched>>

\* RunLoops reading the notify config as it was before the last command
RunLoops_StaleConfig(i, ps, done) ==
    LET r == Scan(Items, i, ps, done, lastCmd.before, channels)
    IN /\ previous_status' = r.ps
       /\ cached' = r.cached
       /\ at' = r.at
       /\ sendTo' = IF r.at = 0 THEN NoChannel
                    ELSE lastCmd.before[Items[r.at].kind][Items[r.at].name]
       /\ pc' = IF r.at = 0 THEN "sleep" ELSE "send"

\* the notification loops from entity i on, up to the next await
RunLoops(i, ps, done) ==
    LET r == Scan(Items, i, ps, done, notify_config, channels)
    IN /\ previous_status' = r.ps
       /\ cached' = r.cached
       /\ at' = r.at
       /\ sendTo' = IF r.at = 0 THEN NoChannel
                    ELSE notify_config[Items[r.at].kind][Items[r.at].name]
       /\ pc' = IF r.at = 0 THEN "sleep" ELSE "send"

\* change_presence returns: the history loops, save_json, then the
\* notification loops up to the first send
PresenceOk(outcomes) ==
    /\ pc = "presence"
    /\ LET h == AppendHistory(history_data, Items, 1, now)
       IN /\ history_data' = h.hist
          /\ histStep' = IF h.raised THEN "raised" ELSE "done"
          /\ IF h.raised
             THEN /\ failed' = TRUE
                  /\ pc' = "sleep"
                  /\ UNCHANGED <<historyFile, previous_status, cached, at, sendTo>>
             ELSE \E outcome \in outcomes :
                    /\ historyFile' = save_json(historyFile, DumpHistory(h.hist), outcome)
                    /\ IF outcome = "ok"
                       THEN /\ RunLoops(1, previous_status, cached)
                            /\ UNCHANGED failed
                       ELSE /\ failed' = TRUE
                            /\ pc' = "sleep"
                            /\ UNCHANGED <<previous_status, cached, at, sendTo>>
    /\ UNCHANGED <<now, nodes, vms>>
    /\ UNCHANGED <<cycle, fetched, sent, startPs, startLen, same, settled, seen>>
    /\ UNCHANGED <<cmdVars, envVars, touched>>

\* SendFail with the previous_status assignment of the entity done all the same
SendFail_Caches ==
    /\ pc = "send"
    /\ failed' = TRUE
    /\ pc' = "sleep"
    /\ previous_status' = Put(previous_status, Items[at].name, Items[at].status)
    /\ UNCHANGED <<history_data, historyFile, now, nodes, vms, at, sendTo>>
    /\ UNCHANGED <<cycle, fetched, histStep, sent, cached, startPs, startLen, same,
                   settled, seen>>
    /\ UNCHANGED <<cmdVars, envVars, touched>>

\* channel.send raises
SendFail ==
    /\ pc = "send"
    /\ failed' = TRUE
    /\ pc' = "sleep"
    /\ UNCHANGED <<previous_status, history_data, historyFile, now, nodes, vms, at, sendTo>>
    /\ UNCHANGED <<cycle, fetched, histStep, sent, cached, startPs, startLen, same,
                   settled, seen>>
    /\ UNCHANGED <<cmdVars, envVars, touched>>

\* channel.send returns: the entity's previous_status assignment, then the
\* rest of the loops up to the next send
SendOk ==
    /\ pc = "send"
    /\ LET it == Items[at]
       IN /\ sent' = Append(sent, [i |-> at, key |-> KeyOf(it), channel |-> sendTo])
          /\ RunLoops(at + 1, Put(previous_status, it.name, it.status),
                      cached \cup {KeyOf(it)})
    /\ UNCHANGED <<history_data, historyFile, now, nodes, vms>>
    /\ UNCHANGED <<cycle, fetched, failed, histStep, startPs, startLen, same, settled, seen>>
    /\ UNCHANGED <<cmdVars, envVars, touched>>

\* ------------------------------------------------------------- environment
\* the client is closed
Close ==
    /\ ~closed
    /\ closed' = TRUE
    /\ UNCHANGED channels
    /\ UNCHANGED <<progVars, obsVars, cmdVars, touched>>

\* a channel is deleted (or leaves the client's cache): get_channel returns None
ChannelGone ==
    /\ \E c \in channels : channels' = channels \ {c}
    /\ touched' = TRUE
    /\ UNCHANGED closed
    /\ UNCHANGED <<progVars, obsVars, cmdVars>>

\* ------------------------------------------------------------- on_message()
\* Register without the save_json call
Register_NoSave(kind, name, ch, outcome) ==
    /\ ~closed
    /\ ch \in channels
    /\ notify_config' = [notify_config EXCEPT ![kind] = Put(@, name, ch)]
    /\ configFile' = configFile
    /\ cfgSaveFailed' = FALSE
    /\ reply' = <<"registered", kind, name, ch>>
    /\ lastCmd' = [op |-> "notify", kind |-> kind, name |-> name, paired |-> FALSE,
                   before |-> notify_config]
    /\ touched' = TRUE
    /\ UNCHANGED <<progVars, obsVars, envVars, qryVars, bootVars>>

\* notify_config[kind][name] = message.channel.id; save_json; the reply
Register(kind, name, ch, outcome) ==
    /\ ~closed
    /\ ch \in channels
    /\ notify_config' = [notify_config EXCEPT ![kind] = Put(@, name, ch)]
    /\ configFile' = save_json(configFile, DumpConfig(notify_config'), outcome)
    /\ cfgSaveFailed' = (outcome # "ok")
    /\ reply' = IF outcome = "ok" THEN <<"registered", kind, name, ch>> ELSE <<>>
    /\ lastCmd' = [op |-> "notify", kind |-> kind, name |-> name, paired |-> FALSE,
                   before |-> notify_config]
    /\ touched' = TRUE
    /\ UNCHANGED <<progVars, obsVars, envVars, qryVars, bootVars>>

\* Unregister emptying the whole mapping of the category
Unregister_ClearsKind(kind, name, ch, outcome) ==
    /\ ~closed
    /\ ch \in channels
    /\ IF name \in DOMAIN notify_config[kind]
       THEN /\ notify_config' = [notify_config EXCEPT ![kind] = EmptyDict]
            /\ configFile' = save_json(configFile, DumpConfig(notify_config'), outcome)
            /\ cfgSaveFailed' = (outcome # "ok")
            /\ reply' = IF outcome = "ok" THEN <<"unregistered", kind, name, ch>> ELSE <<>>
            /\ touched' = TRUE
       ELSE /\ outcome = "ok"
            /\ reply' = <<>>
            /\ UNCHANGED <<notify_config, configFile, cfgSaveFailed, touched>>
    /\ lastCmd' = LET pair == /\ lastCmd.op = "notify"
                              /\ lastCmd.kind = kind
                              /\ lastCmd.name = name
                  IN [op |-> "unnotify", kind |-> kind, name |-> name, paired |-> pair,
                      before |-> IF pair THEN lastCmd.before ELSE notify_config]
    /\ UNCHANGED <<progVars, obsVars, envVars, qryVars, bootVars>>

\* Unregister calling save_json also for a name that is not registered
Unregister_AlwaysSaves(kind, name, ch, outcome) ==
    /\ ~closed
    /\ ch \in channels
    /\ notify_config' = [notify_config EXCEPT ![kind] = Pop(@, name)]
    /\ configFile' = save_json(configFile, DumpConfig(notify_config'), outcome)
    /\ cfgSaveFailed' = (outcome # "ok")
    /\ reply' = IF outcome = "ok" /\ name \in DOMAIN notify_config[kind]
                THEN <<"unregistered", kind, name, ch>> ELSE <<>>
    /\ touched' = TRUE
    /\ lastCmd' = LET pair == /\ lastCmd.op = "notify"
                              /\ lastCmd.kind = kind
                              /\ lastCmd.name = name
                  IN [op |-> "unnotify", kind |-> kind, name |-> name, paired |-> pair,
                      before |-> IF pair THEN lastCmd.before ELSE notify_config]
    /\ UNCHANGED <<progVars, obsVars, envVars, qryVars, bootVars>>

\* if name in notify_config[kind]: pop; save_json; the reply.  Otherwise nothing
Unregister(kind, name, ch, outcome) ==
    /\ ~closed
    /\ ch \in channels
    /\ IF name \in DOMAIN notify_config[kind]
       THEN /\ notify_config' = [notify_config EXCEPT ![kind] = Pop(@, name)]
            /\ configFile' = save_json(configFile, DumpConfig(notify_config'), outcome)
            /\ cfgSaveFailed' = (outcome # "ok")
            /\ reply' = IF outcome = "ok" THEN <<"unregistered", kind, name, ch>> ELSE <<>>
            /\ touched' = TRUE
       ELSE /\ outcome = "ok"
            /\ reply' = <<>>
            /\ UNCHANGED <<notify_config, configFile, cfgSaveFailed, touched>>
    /\ lastCmd' = LET pair == /\ lastCmd.op = "notify"
                              /\ lastCmd.kind = kind
                              /\ lastCmd.name = name
                  IN [op |-> "unnotify", kind |-> kind, name |-> name, paired |-> pair,
                      before |-> IF pair THEN lastCmd.before ELSE notify_config]
    /\ UNCHANGED <<progVars, obsVars, envVars, qryVars, bootVars>>

NotifyNode(names, outcomes) ==
    \E name \in names, ch \in Chans, outcome \in outcomes :
        Register("nodes", name, ch, outcome)

UnnotifyNode(names, outcomes) ==
    \E name \in names, ch \in Chans, outcome \in outcomes :
        Unregister("nodes", name, ch, outcome)

NotifyVm(names, outcomes) ==
    \E name \in names, ch \in Chans, outcome \in outcomes :
        Register("vms", name, ch, outcome)

UnnotifyVm(names, outcomes) ==
    \E name \in names, ch \in Chans, outcome \in outcomes :
        Unregister("vms", name, ch, outcome)

\* the lines of !listnotify after the header
ListLines(cfg) ==
    {<<"Node", n, cfg.nodes[n]>> : n \in DOMAIN cfg.nodes}
        \cup {<<"VM", v, cfg.vms[v]>> : v \in DOMAIN cfg.vms}

ListNotify ==
    /\ ~closed
    /\ \E ch \in channels : reply' = <<"list", ListLines(notify_config), ch>>
    /\ lastCmd' = [op |-> "listnotify", kind |-> "nodes", name |-> "", paired |-> FALSE,
                   before |-> notify_config]
    /\ UNCHANGED <<notify_config, configFile, cfgSaveFailed, touched>>
    /\ UNCHANGED <<progVars, obsVars, envVars, qryVars, bootVars>>

\* ----------------------------------------------- on_message(): the queries
\* the memory percentage format_detail prints
MemPct(it) == IF it.maxmem # 0 THEN Frac(it.mem, it.maxmem) ELSE 0
\* format_detail: one line per node, then one per guest
DetailLines(ns, vs) ==
    LET items == ItemsOf(ns, vs)
    IN [i \in DOMAIN items |->
           <<items[i].kind, items[i].name, items[i].status, MemPct(items[i])>>]

\* generate_graph: None (here <<>>) for a name without history, else the figure
\* (its title and the number of points plotted)
generate_graph(hist, target_name) ==
    IF target_name \notin DOMAIN hist THEN <<>>
    ELSE <<target_name, Len(hist[target_name])>>

\* a command other than the config commands leaves these alone
QueryFrame ==
    /\ UNCHANGED <<notify_config, configFile, cfgSaveFailed, touched, bootVars>>
    /\ UNCHANGED <<progVars, obsVars, envVars>>

\* !status: the fetches and format_detail are inside try; the except clause
\* replies with the error
Status(nodeLists, vmLists) ==
    /\ ~closed
    /\ \E ch \in channels :
           /\ cmdChannel' = ch
           /\ \/ /\ apiFailed' = TRUE
                 /\ reply' = <<"status_error", ch>>
              \/ \E ns \in nodeLists, vs \in vmLists :
                     /\ apiFailed' = FALSE
                     /\ reply' = <<"detail", DetailLines(ns, vs), ch>>
    /\ lastCmd' = [op |-> "status", kind |-> "nodes", name |-> "", paired |-> FALSE,
                   before |-> notify_config]
    /\ UNCHANGED emerg
    /\ QueryFrame

\* !status-detail <name>: the graph of the name, or the no-history reply
StatusDetail(names) ==
    /\ ~closed
    /\ \E ch \in channels, target \in names :
           /\ cmdChannel' = ch
           /\ reply' = IF generate_graph(history_data, target) # <<>>
                       THEN <<"graph", generate_graph(history_data, target), ch>>
                       ELSE <<"no_history", target, ch>>
           /\ lastCmd' = [op |-> "status-detail", kind |-> "nodes", name |-> target,
                          paired |-> FALSE, before |-> notify_config]
    /\ apiFailed' = FALSE
    /\ UNCHANGED emerg
    /\ QueryFrame

\* the loop over all_targets from index i on, up to the next await: the first
\* target generate_graph returns a figure for
RECURSIVE NextGraph(_, _, _)
NextGraph(ts, i, hist) ==
    IF i > Len(ts) THEN 0
    ELSE IF generate_graph(hist, ts[i]) # <<>> THEN i
    ELSE NextGraph(ts, i + 1, hist)

EmergencyAt(ts, i, ch) ==
    LET j == NextGraph(ts, i, history_data)
    IN IF j = 0 THEN NoEmergency
       ELSE [targets |-> ts, pos |-> j, buf |-> generate_graph(history_data, ts[j]),
             channel |-> ch]

\* !status-detail-emergency-<word>, a fetch raises: nothing catches the error
\* in on_message, the handler ends without a reply
EmergencyFail ==
    /\ ~closed
    /\ emerg.pos = 0
    /\ \E ch \in channels : cmdChannel' = ch
    /\ apiFailed' = TRUE
    /\ reply' = <<>>
    /\ lastCmd' = [op |-> "emergency", kind |-> "nodes", name |-> "", paired |-> FALSE,
                   before |-> notify_config]
    /\ UNCHANGED emerg
    /\ QueryFrame

\* !status-detail-emergency-<word>, both lists fetched: all_targets, then the
\* loop up to the first send
EmergencyBegin(nodeLists, vmLists) ==
    /\ ~closed
    /\ emerg.pos = 0
    /\ \E ch \in channels, ns \in nodeLists, vs \in vmLists :
           LET items == ItemsOf(ns, vs)
           IN /\ cmdChannel' = ch
              /\ emerg' = EmergencyAt([i \in DOMAIN items |-> items[i].name], 1, ch)
    /\ apiFailed' = FALSE
    /\ reply' = <<>>
    /\ lastCmd' = [op |-> "emergency", kind |-> "nodes", name |-> "", paired |-> FALSE,
                   before |-> notify_config]
    /\ QueryFrame

\* the awaited send of a graph returns: the loop goes on to the next send
EmergencySendOk ==
    /\ emerg.pos # 0
    /\ reply' = <<"graph", emerg.buf, emerg.channel>>
    /\ emerg' = EmergencyAt(emerg.targets, emerg.pos + 1, emerg.channel)
    /\ cmdChannel' = emerg.channel
    /\ apiFailed' = FALSE
    /\ lastCmd' = [op |-> "emergency", kind |-> "nodes", name |-> "", paired |-> FALSE,
                   before |-> notify_config]
    /\ QueryFrame

\* the awaited send of a graph raises: the handler ends
EmergencySendFail ==
    /\ emerg.pos # 0
    /\ emerg' = NoEmergency
    /\ reply' = <<>>
    /\ cmdChannel' = emerg.channel
    /\ apiFailed' = FALSE
    /\ lastCmd' = [op |-> "emergency", kind |-> "nodes", name |-> "", paired |-> FALSE,
                   before |-> notify_config]
    /\ QueryFrame

\* ------------------------------------------------------------------ restart
\* the process is killed and started again: the module level runs anew (lines
\* 37-55) and on_ready creates monitor(); json.load raises on a file that holds
\* no complete JSON document, and the process exits before the client runs
Restart ==
    /\ boots < MaxRestarts
    /\ boots' = boots + 1
    /\ bootCycle' = cycle
    /\ stoppedBefore' = {k \in SeenNow : StatusOf(Items, k) = "STOPPED"}
    /\ seen' = seen \cup SeenNow
    /\ IF configFile.valid /\ historyFile.valid
       THEN /\ notify_config' = load_json(configFile, LoadConfig(configFile.data),
                                          EmptyConfig)
            /\ history_data' = load_json(historyFile, LoadHistory(historyFile.data),
                                         EmptyDict)
            /\ pc' = "start"
            /\ closed' = FALSE
       ELSE /\ notify_config' = EmptyConfig
            /\ history_data' = EmptyDict
            /\ pc' = "dead"
            /\ closed' = TRUE
    /\ previous_status' = EmptyDict
    /\ nodes' = <<>>
    /\ vms' = <<>>
    /\ at' = 0
    /\ sendTo' = NoChannel
    /\ reply' = <<>>
    /\ emerg' = NoEmergency
    /\ lastCmd' = [op |-> "restart", kind |-> "nodes", name |-> "", paired |-> FALSE,
                   before |-> notify_config']
    /\ fetched' = FALSE
    /\ failed' = FALSE
    /\ histStep' = "pending"
    /\ sent' = <<>>
    /\ cached' = {}
    /\ startPs' = EmptyDict
    /\ startLen' = LenOf(history_data')
    /\ same' = {}
    /\ settled' = {}
    /\ touched' = FALSE
    /\ UNCHANGED <<configFile, historyFile, channels, now, cycle, cfgSaveFailed,
                   cmdChannel, apiFailed>>

\* ------------------------------------------------------------ specification
HealthyMem == {2}
AnyMem == {0, 2}

\* the poller against a cluster of one node and one guest of the same name,
\* started with any notify config on disk
Init == InitWith({NoFile(DumpConfig(EmptyConfig))}
                     \cup {FileOf(DumpConfig(c)) : c \in Configs({"pve1"}, {1})},
                 {NoFile(DumpHistory(EmptyDict))},
                 {{1}, {}})

Next ==
    \/ MonitorExit
    \/ FetchFail(NodeLists(<<"pve1">>, HealthyMem))
    \/ FetchOk(NodeLists(<<"pve1">>, HealthyMem), VmLists(<<"pve1">>, HealthyMem))
    \/ PresenceFail
    \/ PresenceOk(SaveOutcomes)
    \/ SendFail
    \/ SendOk
    \/ Close
    \/ ChannelGone

Spec == Init /\ [][Next]_vars

\* ------------------------------------------------- notification properties
\* number of notifications delivered in the current cycle for entity i
Count(i) == Cardinality({k \in 1..Len(sent) : sent[k].i = i})
\* the entity is the last of its name in the cycle's processing order
LastOfName(i) == \A j \in DOMAIN Items : j > i => Items[j].name # Items[i].name
\* previous_status.get(name) when the loops reach entity i: the status of the
\* entity of that name processed just before it in this cycle, else the entry
\* the cycle started with
TurnPrev(i) ==
    LET before == {j \in DOMAIN Items : j < i /\ Items[j].name = Items[i].name}
    IN IF before = {} THEN Get(startPs, Items[i].name, NoStatus)
       ELSE Items[CHOOSE j \in before : \A l \in before : l <= j].status
RegisteredChannel(i) == Get(notify_config[Items[i].kind], Items[i].name, NoChannel)
CycleDone == pc = "sleep" /\ fetched /\ ~failed

\* the case of C1 at entity i
StopDue(i) ==
    /\ Items[i].status = "STOPPED"
    /\ TurnPrev(i) \notin {NoStatus, "STOPPED"}
    /\ RegisteredChannel(i) \in channels

Unshared(i) == ~Shared(Items, KeyOf(Items[i]))

\* C1 as stated (taken for an entity whose name no entity of the other category
\* bears): whenever a cycle fetches an entity as STOPPED while the cache holds
\* another, non-STOPPED status for it and a channel is registered for it,
\* exactly one notification is sent for it.
C1_Original ==
    (pc = "sleep" /\ fetched) =>
        \A i \in DOMAIN Items :
            (/\ Unshared(i)
             /\ Items[i].status = "STOPPED"
             /\ Get(startPs, Items[i].name, NoStatus) \notin {NoStatus, "STOPPED"}
             /\ Items[i].name \in DOMAIN notify_config[Items[i].kind])
            => Count(i) = 1

\* C1 amended: in a cycle that runs to its end without error and during which
\* neither the registration nor the channel changes, an entity fetched as
\* STOPPED whose name has another status cached when its turn comes, and whose
\* registered channel the client resolves, gets exactly one notification, sent
\* to that channel; no entity ever gets two in one cycle or one while the cache
\* entry of its name is STOPPED at its turn; and after the notification the
\* cache entry is STOPPED.
C1_ExactlyOnce ==
    /\ (CycleDone /\ ~touched) =>
           \A i \in DOMAIN Items :
               StopDue(i) => /\ Count(i) = 1
                             /\ \A k \in 1..Len(sent) :
                                    sent[k].i = i => sent[k].channel = RegisteredChannel(i)
    /\ \A i \in DOMAIN Items : Count(i) <= 1
    /\ \A k \in 1..Len(sent) : TurnPrev(sent[k].i) \notin {NoStatus, "STOPPED"}
    /\ CycleDone =>
           \A k \in 1..Len(sent) :
               LastOfName(sent[k].i) => previous_status[sent[k].key[2]] = "STOPPED"

\* the third cycle of the example: STOPPED, RUNNING, then STOPPED and notified
C1_Witness ==
    /\ CycleDone /\ ~touched
    /\ cycle = 3
    /\ \E i \in DOMAIN Items :
           /\ Unshared(i)
           /\ StopDue(i)
           /\ Count(i) = 1
           /\ KeyOf(Items[i]) \in seen

\* C2 as stated (taken for an entity whose name no entity of the other category
\* bears): an entity fetched with the same status in two consecutive cycles gets
\* no notification in the second.
C2_Original ==
    \A i \in DOMAIN Items :
        (fetched /\ KeyOf(Items[i]) \in same /\ Unshared(i)) => Count(i) = 0

\* C2 amended: an entity gets no notification in a cycle in which the cache
\* entry of its name holds the status fetched for it when its turn comes; that
\* is so for an entity fetched with the same status in two consecutive cycles
\* when the first cycle reached the entity's cache update and no other entity
\* bears its name in either cycle.
C2_SameStatusSilent ==
    \A i \in DOMAIN Items :
        /\ (fetched /\ TurnPrev(i) = Items[i].status)
           => /\ Count(i) = 0
              /\ ~(pc = "send" /\ at = i)
        /\ (fetched /\ KeyOf(Items[i]) \in settled /\ Unshared(i))
           => TurnPrev(i) = Items[i].status

\* STOPPED twice in a row with a resolvable channel registered, and another
\* status cached before that
C2_Witness ==
    /\ CycleDone
    /\ cycle = 3
    /\ \E i \in DOMAIN Items :
           /\ KeyOf(Items[i]) \in settled
           /\ Unshared(i)
           /\ Items[i].status = "STOPPED"
           /\ RegisteredChannel(i) \in channels

\* C3 as stated: the first cycle that fetches an entity sends no notification
\* for it.
C3_FirstObservationSilent ==
    \A k \in 1..Len(sent) : sent[k].key \in seen

\* C4 as stated (taken for an entity whose name no entity of the other category
\* bears): no notification for an entity fetched with a status other than
\* STOPPED, and a cycle that fetches RUNNING for an entity cached as STOPPED
\* sends nothing for it and leaves RUNNING cached.
C4_Original ==
    (pc = "sleep" /\ fetched) =>
        \A i \in DOMAIN Items :
            /\ Items[i].status # "STOPPED" => Count(i) = 0
            /\ (/\ Unshared(i)
                /\ Items[i].status = "RUNNING"
                /\ Get(startPs, Items[i].name, NoStatus) = "STOPPED")
               => /\ Count(i) = 0
                  /\ Get(previous_status, Items[i].name, NoStatus) = "RUNNING"

\* C4 amended: no notification for an entity fetched with a status other than
\* STOPPED; a cycle that fetches RUNNING for an entity whose name is cached as
\* STOPPED when its turn comes sends nothing for it and, once it has reached the
\* entity's cache update, has RUNNING cached for its name (until a later entity
\* of that name is processed).
C4_RecoverySilent ==
    /\ \A k \in 1..Len(sent) : Items[sent[k].i].status = "STOPPED"
    /\ pc = "send" => Items[at].status = "STOPPED"
    /\ \A i \in DOMAIN Items :
           (/\ fetched
            /\ Items[i].status = "RUNNING"
            /\ TurnPrev(i) = "STOPPED"
            /\ KeyOf(Items[i]) \in cached
            /\ \A j \in DOMAIN Items :
                   (j > i /\ Items[j].name = Items[i].name) => KeyOf(Items[j]) \notin cached)
           => /\ previous_status[Items[i].name] = "RUNNING"
              /\ Count(i) = 0

\* a recovery of an entity with a resolvable channel registered
C4_Witness ==
    /\ CycleDone
    /\ \E i \in DOMAIN Items :
           /\ Unshared(i)
           /\ Items[i].status = "RUNNING"
           /\ TurnPrev(i) = "STOPPED"
           /\ RegisteredChannel(i) \in channels
           /\ previous_status[Items[i].name] = "RUNNING"

\* C9 as stated (taken for an entity whose name no entity of the other category
\* bears): after a cycle whose fetch succeeded the cache maps every fetched
\* entity to the status fetched.
C9_Original ==
    (pc = "sleep" /\ fetched) =>
        \A i \in DOMAIN Items :
            Unshared(i) => Get(previous_status, Items[i].name, NoStatus) = Items[i].status

\* C9 amended: after a cycle that ran to its end without error the cache maps
\* the name of every fetched entity to the status fetched for the last entity of
\* that name (nodes come before guests), whether or not it had a value before, a
\* notification was due or a channel was registered or resolvable; after a cycle
\* that failed, the names none of whose entities the loops reached keep the
\* entry the cycle started with.
C9_CacheUpdated ==
    /\ CycleDone =>
           \A i \in DOMAIN Items :
               LastOfName(i) => Get(previous_status, Items[i].name, NoStatus) = Items[i].status
    /\ (pc = "sleep" /\ fetched /\ failed) =>
           \A i \in DOMAIN Items :
               (\A j \in DOMAIN Items : Items[j].name = Items[i].name
                                         => KeyOf(Items[j]) \notin cached)
               => Get(previous_status, Items[i].name, NoStatus)
                      = Get(startPs, Items[i].name, NoStatus)

\* a completed cycle that cached a first observation, and one that cached a
\* notified stop
C9_Witness ==
    /\ CycleDone
    /\ \E i \in DOMAIN Items :
           /\ Unshared(i)
           /\ \/ /\ Get(startPs, Items[i].name, NoStatus) = NoStatus
                 /\ RegisteredChannel(i) = NoChannel
              \/ /\ StopDue(i)
                 /\ Count(i) = 1
           /\ previous_status[Items[i].name] = Items[i].status

\* C18 as stated: a node and a guest of one name are told apart: the
\* notifications for each and the cached previous status of each follow from
\* its own fetched statuses alone.  So the first cycle, in which no entity has an
\* earlier status of its own, sends nothing, and after a cycle that ran to its
\* end the cached previous status of every fetched entity is the status fetched
\* for that entity.
C18_PerCategory ==
    /\ cycle = 1 => sent = <<>>
    /\ CycleDone
       => \A i \in DOMAIN Items :
              Get(previous_status, Items[i].name, NoStatus) = Items[i].status

\* --------------------------------------------------------- history properties
\* the poller against a cluster of one node and one guest, of the same or of
\* another name, that may report maxmem = 0; guest "web" is registered
InitHistory ==
    InitWith({FileOf(DumpConfig([nodes |-> EmptyDict, vms |-> [n \in {"web"} |-> 1]]))},
             {NoFile(DumpHistory(EmptyDict))},
             {{1}})

NextHistory ==
    \/ FetchFail(NodeLists(<<"pve1">>, AnyMem))
    \/ FetchOk(NodeLists(<<"pve1">>, AnyMem),
               VmLists(<<"pve1">>, AnyMem) \cup VmLists(<<"web">>, AnyMem))
    \/ PresenceFail
    \/ PresenceOk(SaveOutcomes)
    \/ SendFail
    \/ SendOk

SpecHistory == InitHistory /\ [][NextHistory]_vars

History(n) == Get(history_data, n, <<>>)
CountName(n) == Cardinality({i \in DOMAIN Items : Items[i].name = n})
NonDecreasing(h) == \A i \in 1..Len(h) : \A j \in 1..Len(h) : i < j => h[i].time <= h[j].time

\* C5 as stated (the growth taken for a name that one fetched entity bears):
\* the timestamps of every history sequence are non-decreasing, and each cycle
\* grows the sequence of each entity fetched in it by exactly one and leaves the
\* length of the others unchanged.
C5_Original ==
    /\ \A n \in AllNames : NonDecreasing(History(n))
    /\ (pc = "sleep" /\ fetched) =>
           \A n \in AllNames :
               /\ CountName(n) = 1 => Len(History(n)) = startLen[n] + 1
               /\ CountName(n) = 0 => Len(History(n)) = startLen[n]

\* C5 amended: the timestamps of every history sequence are non-decreasing; a
\* cycle whose history loops complete grows the sequence of each name by the
\* number of fetched entities that bear it (one for a name that one entity
\* bears, none for a name not fetched); a cycle that fails before or in the
\* history loops grows it by no more than that number, and a cycle whose fetch
\* fails leaves every length unchanged.
C5_HistoryGrowth ==
    /\ \A n \in AllNames : NonDecreasing(History(n))
    /\ \A n \in AllNames :
           /\ (fetched /\ histStep = "done") => Len(History(n)) = startLen[n] + CountName(n)
           /\ (fetched /\ histStep # "done") =>
                  /\ Len(History(n)) >= startLen[n]
                  /\ Len(History(n)) <= startLen[n] + CountName(n)
           /\ (cycle > 0 /\ ~fetched) => Len(History(n)) = startLen[n]

\* the third completed history step of a name fetched in each cycle, another
\* name being absent from this one
C5_Witness ==
    /\ fetched /\ histStep = "done" /\ pc = "sleep"
    /\ \E n \in AllNames : CountName(n) = 1 /\ Len(History(n)) = 3
    /\ \E n \in AllNames : CountName(n) = 0 /\ Len(History(n)) > 0

\* C6 as stated: a cycle that fetches an entity with maxmem = 0 raises no
\* division error in its history loops and appends for that entity an entry with
\* memory fraction 0.
C6_ZeroMaxmem ==
    \A i \in DOMAIN Items :
        (fetched /\ histStep # "pending" /\ Items[i].maxmem = 0)
        => /\ histStep = "done"
           /\ \E k \in 1..Len(History(Items[i].name)) :
                  /\ History(Items[i].name)[k].time = now
                  /\ History(Items[i].name)[k].mem = 0

\* the cycle has ended in the except clause
CycleFailed == pc = "sleep" /\ failed
\* the names whose cache entry differs from the one the cycle started with
Recached == {n \in AllNames : Get(previous_status, n, NoStatus) # Get(startPs, n, NoStatus)}

\* C15 as stated (memory and notifications): a cycle in which an error occurs
\* leaves the history and the previous-status cache as they were when it began
\* and sends no notification.
C15_Original ==
    CycleFailed
    => /\ LenOf(history_data) = startLen
       /\ previous_status = startPs
       /\ sent = <<>>

\* C15 amended: an error ends the cycle where it occurs and what the cycle did
\* before it stays.  A cycle that fails in the fetch or in the presence update
\* changes neither the history, nor the history file, nor the cache, and sends
\* nothing.  A cycle that fails in the history loops keeps the entries appended
\* before the error, in memory only, and leaves the file and the cache alone.
\* A cycle that fails in save_json or in a send keeps one more entry per
\* fetched entity; the cache has changed only for entities the loops passed
\* before the error, and only notifications awaited before it were delivered.
C15_FailedCycle ==
    /\ []((CycleFailed /\ histStep = "pending")
             => /\ LenOf(history_data) = startLen
                /\ previous_status = startPs
                /\ sent = <<>>)
    /\ []((CycleFailed /\ histStep = "raised")
             => /\ \A n \in AllNames :
                       /\ startLen[n] <= Len(History(n))
                       /\ Len(History(n)) <= startLen[n] + CountName(n)
                /\ previous_status = startPs
                /\ sent = <<>>)
    /\ []((CycleFailed /\ histStep = "done")
             => /\ \A n \in AllNames : Len(History(n)) = startLen[n] + CountName(n)
                /\ \A n \in Recached :
                       \E i \in DOMAIN Items : Items[i].name = n /\ KeyOf(Items[i]) \in cached
                /\ \A k \in 1..Len(sent) : at = 0 \/ sent[k].i < at)
    /\ [][(failed' /\ histStep' # "done") => historyFile' = historyFile]_vars

\* a send raised after the history was appended and saved and the entity
\* before it was cached
C15_Witness ==
    /\ CycleFailed
    /\ at = 2
    /\ cached # {}
    /\ Recached # {}
    /\ historyFile.exists
    /\ LenOf(history_data) # startLen

\* what load_json would return for HISTORY_FILE equals the history_data in memory
HistoryMirrored ==
    /\ historyFile.valid
    /\ load_json(historyFile, LoadHistory(historyFile.data), EmptyDict) = history_data
\* the save_json of the current cycle returned
HistorySaved == histStep = "done" /\ (~failed \/ at # 0)

\* C16 as stated: whenever the poller is at its sleep, after a successful or a
\* failed cycle, the history file holds the history in memory.
C16_Original == pc = "sleep" => HistoryMirrored

\* C16 amended: when the poller is at its sleep after a cycle whose save_json
\* returned, the history file holds the history in memory, and a cycle that
\* fails before the history loops keeps it so; a cycle whose history loops or
\* save_json raise leaves the memory ahead of the file (or the file truncated)
\* until a later save_json returns.
C16_HistoryPersisted ==
    /\ []((pc = "sleep" /\ HistorySaved) => HistoryMirrored)
    /\ [][(histStep' = "pending" /\ HistoryMirrored) => HistoryMirrored']_vars

\* the poller sleeps after a cycle that failed in the presence update, the
\* file still holding what the two cycles before it saved
C16_Witness ==
    /\ CycleFailed
    /\ histStep = "pending"
    /\ fetched
    /\ HistoryMirrored
    /\ historyFile.exists
    /\ Len(History("pve1")) = 2

\* ---------------------------------------------------------- config properties
\* the command handler, with the poller cycling over a cluster of one node
InitConfig ==
    InitWith({NoFile(DumpConfig(EmptyConfig)),
              FileOf(DumpConfig([nodes |-> [n \in {"web"} |-> 2], vms |-> EmptyDict]))},
             {NoFile(DumpHistory(EmptyDict))},
             {{1}})

NextConfig ==
    \/ NotifyNode({"pve1", "web"}, {"ok", "write_error"})
    \/ UnnotifyNode({"pve1", "web"}, {"ok", "write_error"})
    \/ NotifyVm({"web"}, {"ok", "write_error"})
    \/ UnnotifyVm({"web"}, {"ok", "write_error"})
    \/ ListNotify
    \/ FetchFail({<<>>})
    \/ FetchOk(NodeLists(<<"pve1">>, HealthyMem), {<<>>})
    \/ PresenceFail
    \/ PresenceOk({"ok"})
    \/ SendFail
    \/ SendOk

SpecConfig == InitConfig /\ [][NextConfig]_vars

\* what load_json would return for CONFIG_FILE equals the notify_config in memory
ConfigMirrored ==
    /\ configFile.valid
    /\ load_json(configFile, LoadConfig(configFile.data), EmptyConfig) = notify_config

PairedUnnotifyNode == lastCmd.op = "unnotify" /\ lastCmd.kind = "nodes" /\ lastCmd.paired
Listed == lastCmd.op = "listnotify"
Labels == {"Node", "VM"}
KindOf(label) == IF label = "Node" THEN "nodes" ELSE "vms"
CmdNames == {"pve1", "web"}

\* C7 as stated: notify_node <name> followed by unnotify_node <name> leaves the
\* node mapping, in memory and in the config file, without the key <name> and
\* all other entries unchanged; listnotify lists exactly the entries of the two
\* mappings.
C7_Original ==
    /\ PairedUnnotifyNode =>
           /\ lastCmd.name \notin DOMAIN notify_config.nodes
           /\ notify_config.nodes = Pop(lastCmd.before.nodes, lastCmd.name)
           /\ notify_config.vms = lastCmd.before.vms
           /\ ConfigMirrored
    /\ Listed =>
           \A label \in Labels, n \in CmdNames, c \in Chans :
               <<label, n, c>> \in reply[2]
                   <=> (/\ n \in DOMAIN notify_config[KindOf(label)]
                        /\ notify_config[KindOf(label)][n] = c)

\* C7 amended: notify_node <name> followed by unnotify_node <name> leaves the
\* node mapping in memory without the key <name> and all other node and guest
\* entries unchanged, and the config file holds the same unless the last write
\* of it failed; listnotify lists exactly the entries of the two mappings.
C7_NotifyUnnotify ==
    /\ PairedUnnotifyNode =>
           /\ lastCmd.name \notin DOMAIN notify_config.nodes
           /\ notify_config.nodes = Pop(lastCmd.before.nodes, lastCmd.name)
           /\ notify_config.vms = lastCmd.before.vms
           /\ ~cfgSaveFailed => ConfigMirrored
    /\ Listed =>
           /\ reply[1] = "list"
           /\ \A label \in Labels, n \in CmdNames, c \in Chans :
                  <<label, n, c>> \in reply[2]
                      <=> (/\ n \in DOMAIN notify_config[KindOf(label)]
                           /\ notify_config[KindOf(label)][n] = c)
           /\ \A line \in reply[2] : line[1] \in Labels /\ line[2] \in CmdNames

\* the pair run on a config that held the name, bound to another channel, and
\* another entry
C7_Witness ==
    /\ PairedUnnotifyNode
    /\ lastCmd.name \in DOMAIN lastCmd.before.nodes
    /\ DOMAIN notify_config.nodes # {}
    /\ ~cfgSaveFailed

\* C8 as stated: whenever another task can run, what the config file holds
\* equals the notify config in memory.
C8_Original == ConfigMirrored

\* a step of on_message that registers or unregisters lastCmd'.name
ConfigCommandStep ==
    /\ lastCmd'.op \in {"notify", "unnotify"}
    /\ UNCHANGED progVars
    /\ \/ /\ lastCmd'.op = "notify"
          /\ \E c \in Chans :
                 notify_config' = [notify_config EXCEPT
                                       ![lastCmd'.kind] = Put(@, lastCmd'.name, c)]
       \/ /\ lastCmd'.op = "unnotify"
          /\ notify_config' = [notify_config EXCEPT ![lastCmd'.kind] = Pop(@, lastCmd'.name)]

\* C8 amended: the notify config and the config file are changed only by the
\* notify_node, unnotify_node, notify_vm and unnotify_vm commands, each of which
\* calls save_json before its next await; whenever another task can run, what
\* the config file holds equals the notify config in memory unless the last
\* save_json of it raised.
C8_ConfigPersisted ==
    /\ [](~cfgSaveFailed => ConfigMirrored)
    /\ [][(notify_config' # notify_config \/ configFile' # configFile)
              => ConfigCommandStep]_vars

\* the poller resumes after an unnotify command has rewritten the file
C8_Witness ==
    /\ lastCmd.op = "unnotify"
    /\ configFile.exists
    /\ ~cfgSaveFailed
    /\ ConfigMirrored
    /\ DOMAIN notify_config.nodes # {}
    /\ pc = "send"

\* ------------------------------------------------------------ loop liveness
\* the poller against a cluster of one node that may report maxmem = 0, the
\* node registered; the client may be closed at any time
InitLive ==
    InitWith({FileOf(DumpConfig([nodes |-> [n \in {"pve1"} |-> 1], vms |-> EmptyDict]))},
             {NoFile(DumpHistory(EmptyDict))},
             {{1}})

MonitorLive ==
    \/ MonitorExit
    \/ FetchFail({<<>>})
    \/ FetchOk(NodeLists(<<"pve1">>, AnyMem), {<<>>})
    \/ PresenceFail
    \/ PresenceOk(SaveOutcomes)
    \/ SendFail
    \/ SendOk

NextLive ==
    \/ MonitorLive
    \/ Close
    \/ ChannelGone

\* the event loop resumes monitor() once the call it awaits has returned or
\* raised, and asyncio.sleep returns
SpecLive == InitLive /\ [][NextLive]_vars /\ WF_vars(MonitorLive)

\* C10: no error of a cycle ends the loop: every cycle, failed or not, reaches
\* the sleep, and while the client is not closed the sleep is followed by the
\* start of another cycle (within the cycles explored).
C10_LoopContinues ==
    /\ (pc \in {"presence", "send"}) ~> (pc = "sleep")
    /\ \A c \in 0..(MaxCycles - 1) :
           (pc = "sleep" /\ cycle = c) ~> (cycle = c + 1 \/ closed)
    /\ [](pc = "done" => closed)

\* a third cycle under way after two cycles that failed before the history step
C10_Witness ==
    /\ cycle = 3
    /\ pc = "presence"
    /\ ~closed
    /\ History("pve1") = <<>>

\* ------------------------------------------------------------ query properties
\* the query commands against a cluster of one node and one guest, with the
\* poller cycling over the node; the node is registered
InitQuery ==
    InitWith({FileOf(DumpConfig([nodes |-> [n \in {"pve1"} |-> 1], vms |-> EmptyDict]))},
             {NoFile(DumpHistory(EmptyDict))},
             {Chans})

NextQuery ==
    \/ Status(NodeLists(<<"pve1">>, AnyMem), {<<>>})
    \/ StatusDetail({"pve1", "web"})
    \/ EmergencyFail
    \/ EmergencyBegin(NodeLists(<<"pve1">>, HealthyMem), VmLists(<<"web">>, HealthyMem))
    \/ EmergencySendOk
    \/ EmergencySendFail
    \/ FetchFail({<<>>})
    \/ FetchOk(NodeLists(<<"pve1">>, HealthyMem), {<<>>})
    \/ PresenceFail
    \/ PresenceOk({"ok"})
    \/ SendFail
    \/ SendOk

SpecQuery == InitQuery /\ [][NextQuery]_vars

\* C11 as stated: when the Proxmox call of a !status or of a
\* !status-detail-emergency command fails, the handler replies with the error
\* in the channel the command came from.
C11_ErrorReply ==
    (lastCmd.op \in {"status", "emergency"} /\ apiFailed)
    => /\ reply # <<>>
       /\ reply[1] = "status_error"
       /\ reply[Len(reply)] = cmdChannel

\* ---------------------------------------------------------- restart properties
\* the poller against a cluster of one node and one guest of the same name, the
\* guest registered, and the process restarted at any point
InitRestart ==
    InitWith({FileOf(DumpConfig([nodes |-> EmptyDict, vms |-> [n \in {"pve1"} |-> 1]]))},
             {NoFile(DumpHistory(EmptyDict))},
             {{1}})

NextRestart ==
    \/ Restart
    \/ FetchFail(NodeLists(<<"pve1">>, HealthyMem))
    \/ FetchOk(NodeLists(<<"pve1">>, HealthyMem), VmLists(<<"pve1">>, HealthyMem))
    \/ PresenceFail
    \/ PresenceOk(SaveOutcomes)
    \/ SendFail
    \/ SendOk

SpecRestart == InitRestart /\ [][NextRestart]_vars

\* the process came up again and nothing has run since
JustRestarted == boots > 0 /\ lastCmd.op = "restart" /\ cycle = bootCycle /\ pc = "start"

\* C12 as stated: after a restart the notify config and the history in memory
\* are what their files hold (the defaults for a file that is absent) and the
\* previous-status cache is empty; the first cycle after the restart sends no
\* notification for an entity that was STOPPED before the restart.
C12_Restart ==
    /\ JustRestarted
       => /\ notify_config = load_json(configFile, LoadConfig(configFile.data), EmptyConfig)
          /\ history_data = load_json(historyFile, LoadHistory(historyFile.data), EmptyDict)
          /\ previous_status = EmptyDict
    /\ (boots > 0 /\ cycle = bootCycle + 1)
       => \A k \in 1..Len(sent) : sent[k].key \notin stoppedBefore

\* ------------------------------------------------------------ file properties
\* the commands on node "pve1" and the poller over a cluster of the one node
\* "web", whose registered channel the client does not resolve (no send is ever
\* awaited); every save_json succeeds or fails midway; the process starts with or
\* without files and is restarted at any point
OldEntry == [time |-> 0, cpu |-> CpuLoad, mem |-> Frac(MemUsed, 2)]

InitJson ==
    InitWith({NoFile(DumpConfig(EmptyConfig)),
              FileOf(DumpConfig([nodes |-> [n \in {"web"} |-> 2], vms |-> EmptyDict]))},
             {NoFile(DumpHistory(EmptyDict)),
              FileOf(DumpHistory([n \in {"web"} |-> <<OldEntry>>]))},
             {{1}})

NextJson ==
    \/ Restart
    \/ NotifyNode({"pve1"}, {"ok", "write_error"})
    \/ UnnotifyNode({"pve1"}, {"ok", "write_error"})
    \/ FetchFail({<<>>})
    \/ FetchOk(NodeLists(<<"web">>, HealthyMem), {<<>>})
    \/ PresenceFail
    \/ PresenceOk({"ok", "write_error"})

SpecJson == InitJson /\ [][NextJson]_vars

\* load_json on each of the two files
LoadedConfig(file) == load_json(file, LoadConfig(file.data), EmptyConfig)
LoadedHistory(file) == load_json(file, LoadHistory(file.data), EmptyDict)
\* the last command replied that it registered or unregistered a name: its
\* save_json returned
ConfigSaved == reply # <<>> /\ reply[1] \in {"registered", "unregistered"}

InitNotify ==
    InitWith({NoFile(DumpConfig(EmptyConfig))},
             {NoFile(DumpHistory(EmptyDict))},
             {Chans})

NextNotify ==
    \/ NotifyNode({"pve1"}, {"ok"})
    \/ UnnotifyNode({"pve1"}, {"ok"})
    \/ FetchFail({<<>>})
    \/ FetchOk(NodeLists(<<"pve1">>, HealthyMem), {<<>>})
    \/ PresenceFail
    \/ PresenceOk({"ok"})
    \/ SendFail
    \/ SendOk

SpecNotify == InitNotify /\ [][NextNotify]_vars

\* this step of monitor() calls channel.send
SendIssued == pc' = "send" /\ (pc # "send" \/ at' # at)
\* this step is the return of an awaited channel.send
SendReturned == Len(sent') > Len(sent)

\* C14: under every interleaving of the commands with the poller, a send is
\* issued for an entity only while a channel is registered for it in its
\* category's mapping, and to that channel; the notification delivered is the
\* one issued.
C14_SendTarget ==
    /\ [][SendIssued
              => /\ Items'[at'].name \in DOMAIN notify_config[Items'[at'].kind]
                 /\ sendTo' = notify_config[Items'[at'].kind][Items'[at'].name]]_vars
    /\ [][SendReturned
              => /\ pc = "send"
                 /\ sent' = Append(sent, [i |-> at, key |-> KeyOf(Items[at]),
                                          channel |-> sendTo])]_vars

\* a send issued to channel 2, the node's second registration, is still awaited
\* when an unnotify command removes the entry
C14_Witness ==
    /\ pc = "send"
    /\ sendTo = 2
    /\ lastCmd.op = "unnotify"
    /\ lastCmd.before.nodes = [n \in {"pve1"} |-> 2]
    /\ Items[at].name \notin DOMAIN notify_config.nodes
    /\ cycle = 3

\* ------------------------------------------------------- append-only history
IsPrefix(a, b) == Len(a) <= Len(b) /\ \A i \in 1..Len(a) : a[i] = b[i]

\* C17: across poll cycles and commands no name leaves history_data and the
\* sequence of every name is a prefix of its sequence in the next state (hence
\* in every later state): nothing is removed, reordered or modified.
C17_AppendOnly ==
    [][\A n \in DOMAIN history_data :
           /\ n \in DOMAIN history_data'
           /\ IsPrefix(history_data[n], history_data'[n])]_vars

\* !status-detail has plotted the three entries of three cycles
C17_Witness ==
    /\ Len(History("pve1")) = 3
    /\ lastCmd.op = "status-detail"
    /\ reply = <<"graph", <<"pve1", 3>>, cmdChannel>>

\* ------------------------------------------------------------ frame properties
\* every command, with the poller cycling over a cluster of one node
InitFrame ==
    InitWith({NoFile(DumpConfig(EmptyConfig))},
             {NoFile(DumpHistory(EmptyDict))},
             {{1}})

NextFrame ==
    \/ NotifyNode({"pve1"}, {"ok"})
    \/ UnnotifyNode({"pve1"}, {"ok"})
    \/ NotifyVm({"web"}, {"ok"})
    \/ UnnotifyVm({"web"}, {"ok"})
    \/ ListNotify
    \/ Status(NodeLists(<<"pve1">>, HealthyMem), {<<>>})
    \/ StatusDetail({"pve1"})
    \/ EmergencyFail
    \/ EmergencyBegin(NodeLists(<<"pve1">>, HealthyMem), {<<>>})
    \/ EmergencySendOk
    \/ EmergencySendFail
    \/ FetchFail({<<>>})
    \/ FetchOk(NodeLists(<<"pve1">>, HealthyMem), {<<>>})
    \/ PresenceFail
    \/ PresenceOk({"ok"})
    \/ SendFail
    \/ SendOk

SpecFrame == InitFrame /\ [][NextFrame]_vars

\* this step moves monitor(); any other step is a run of on_message
PollerStep == pc' # pc \/ cycle' # cycle \/ at' # at

\* C19: a step of the poller changes neither the notify config nor the config
\* file; a command changes neither the previous-status cache, nor the history,
\* nor the history file; an unnotify command for a name that is not registered
\* changes nothing, writes no file and sends no reply.
C19_Frame ==
    /\ [][PollerStep => UNCHANGED <<notify_config, configFile>>]_vars
    /\ [][~PollerStep => UNCHANGED <<previous_status, history_data, historyFile>>]_vars
    /\ [][(/\ ~PollerStep
           /\ lastCmd'.op = "unnotify"
           /\ lastCmd'.name \notin DOMAIN notify_config[lastCmd'.kind])
              => /\ UNCHANGED <<notify_config, configFile, progVars, envVars>>
                 /\ reply' = <<>>]_vars

\* while the poller awaits change_presence in its second cycle, an unnotify
\* command has run for a name that is not registered, there being no config file
C19_Witness ==
    /\ pc = "presence"
    /\ cycle = 2
    /\ history_data # EmptyDict
    /\ lastCmd.op = "unnotify"
    /\ lastCmd.name \notin DOMAIN lastCmd.before[lastCmd.kind]
    /\ lastCmd.before = notify_config
    /\ reply = <<>>
    /\ ~configFile.exists

====
